---- MODULE Spec2Model ----
(***************************************************************************)
(* State-machine model of NFS_GUI_Sync: the backend's folder-pair          *)
(* configuration and its sync run (nfs_sync_backend.py), driven by the     *)
(* GTK window's handlers and its idle queue (nfs_sync_gui.py).             *)
(*                                                                         *)
(* The window calls backend.sync_all, backend.stop_sync_process,           *)
(* backend.toggle_folder_enabled and backend.is_nfs_mounted, which the     *)
(* backend source does not define.  Those four are modelled from the       *)
(* specification (sections 4.1 and 5) and are marked as such where they    *)
(* are defined; everything else is translated from the source.             *)
(***************************************************************************)
EXTENDS Integers, Sequences, FiniteSets, TLC

\* ------------------------------------------------------------------ bounds
MaxPairs == 2     \* local paths are 1..MaxPairs (0 is the empty string)
MaxRuns  == 2     \* sync runs started by the window
MaxLines == 1     \* lines of transfer-tool output per transfer

Locals  == 1..MaxPairs
Targets == {"t1"}
Runs    == 1..MaxRuns

\* get_default_config: 'mount_point': '/mnt/unaspro'
mount_point == "/mnt/unaspro"

\* ------------------------------------------------ transfer-tool output text
\* A line of rsync's stdout, described by exactly what sync_folders asks of it:
\*   ft    : 'files transferred' in line.lower()
\*   first : int(line.split()[0]), or -1 when that is not an integer
\*   ts    : "none"  - 'total size' not in line.lower()
\*           "ci"    - 'total size' in line.lower(), but the line does not
\*                     contain the exact text 'total size is'
\*           "exact" - the line contains 'total size is'
Lines == [ft : BOOLEAN, first : {-1, 1}, ts : {"none", "ci", "exact"}]

RECURSIVE SeqsUpTo(_, _)
SeqsUpTo(S, n) ==
    IF n = 0 THEN {<<>>}
    ELSE LET shorter == SeqsUpTo(S, n - 1)
         IN  shorter \cup {Append(s, x) : s \in {t \in shorter : Len(t) = n - 1}, x \in S}

Outputs == SeqsUpTo(Lines, MaxLines)

\* terminal status of subprocess.run(['rsync', ...], timeout=300)
Statuses == {"exit0", "nonzero", "timeout", "exception"}

VARIABLES
    mounted,        \* environment: the share is mounted at mount_point
    is_mounted,     \* NFSSyncBackend.is_mounted (cached flag)
    sync_folders,   \* config['sync_folders']: insertion-ordered local -> target
    enabled,        \* per configured local path: the pair's enabled flag
    last_sync,      \* config['last_sync']: 0 is None, r the time run r ended
    is_syncing,     \* NFSSyncGUI.is_syncing
    sync_sensitive, \* sync_button's sensitivity
    idle,           \* GLib's idle queue: callbacks added by GLib.idle_add
    delivered,      \* callbacks the main loop has run, in order
    runs,           \* number of runs sync_all has started
    worker          \* per run: the locals of sync_folders in the worker thread

vars == <<mounted, is_mounted, sync_folders, enabled, last_sync, is_syncing,
          sync_sensitive, idle, delivered, runs, worker>>

\* ------------------------------------------------------------ dict helpers
HasKey(d, k) == \E i \in DOMAIN d : d[i].local = k

DictSet(d, k, v) ==
    IF HasKey(d, k)
    THEN [i \in DOMAIN d |-> IF d[i].local = k THEN [local |-> k, target |-> v] ELSE d[i]]
    ELSE Append(d, [local |-> k, target |-> v])

DictDel(d, k) == SelectSeq(d, LAMBDA p : p.local # k)

Keys(d) == {d[i].local : i \in DOMAIN d}

\* ------------------------------------------------------------ mount state
\* What `mountpoint -q` can answer: its exit code follows the real mount
\* state, or the call times out / cannot be run ("raise").
Probes(m) == {IF m THEN "rc0" ELSE "rc1", "raise"}

\* NFSSyncBackend.check_mount: the value returned and the cached flag after it.
check_mount(mp, probe, cached) ==
    IF mp = "" THEN [ret |-> FALSE, is_mounted |-> cached]
    ELSE IF probe = "raise" THEN [ret |-> FALSE, is_mounted |-> cached]
    ELSE [ret |-> (probe = "rc0"), is_mounted |-> (probe = "rc0")]

\* backend.is_nfs_mounted, called by the window and absent from the backend
\* source: MountController.isMounted of the specification, a bounded-time
\* check against the configured mount path.
is_nfs_mounted(probe, cached) == check_mount(mount_point, probe, cached)

\* How a call of mount_nfs / unmount_nfs goes, by the first step that stops
\* it: the NFS configuration is incomplete, the mount point cannot be made,
\* no sudo password is at hand, or sudo ran and ended with rc0 or otherwise.
MountHows   == {"incomplete", "mkdir_fails", "no_password", "rc0", "fail"}
UnmountHows == {"no_password", "rc0", "fail"}

\* NFSSyncBackend.mount_nfs: the answer, the mount state and the cached flag.
mount_nfs(how, probe, m, cached) ==
    LET chk == check_mount(mount_point, probe, cached) IN
    IF how = "incomplete" THEN [ok |-> FALSE, mounted |-> m, is_mounted |-> cached]
    ELSE IF chk.ret THEN [ok |-> TRUE, mounted |-> m, is_mounted |-> TRUE]
    ELSE IF how \in {"mkdir_fails", "no_password"}
    THEN [ok |-> FALSE, mounted |-> m, is_mounted |-> chk.is_mounted]
    ELSE IF how = "rc0" THEN [ok |-> TRUE, mounted |-> TRUE, is_mounted |-> TRUE]
    ELSE [ok |-> FALSE, mounted |-> m, is_mounted |-> chk.is_mounted]

\* NFSSyncBackend.unmount_nfs.
unmount_nfs(how, probe, m, cached) ==
    LET chk == check_mount(mount_point, probe, cached) IN
    IF mount_point = "" THEN [ok |-> FALSE, mounted |-> m, is_mounted |-> cached]
    ELSE IF ~chk.ret THEN [ok |-> TRUE, mounted |-> m, is_mounted |-> chk.is_mounted]
    ELSE IF how = "no_password"
    THEN [ok |-> FALSE, mounted |-> m, is_mounted |-> chk.is_mounted]
    ELSE IF how = "rc0" THEN [ok |-> TRUE, mounted |-> FALSE, is_mounted |-> FALSE]
    ELSE [ok |-> FALSE, mounted |-> m, is_mounted |-> chk.is_mounted]

\* NFSSyncGUI._update_status: the sync button's sensitivity after it.
update_status(ret, syncing, sensitive) ==
    IF ret THEN (IF ~syncing THEN TRUE ELSE sensitive) ELSE FALSE

\* ------------------------------------------------------- folder-pair config
\* NFSSyncBackend.add_sync_folder: the answer and config['sync_folders'] after it.
add_sync_folder(d, local_path, target_path, exists, saved) ==
    IF local_path = 0 \/ target_path = "" THEN [ok |-> FALSE, sync_folders |-> d]
    ELSE IF ~exists THEN [ok |-> FALSE, sync_folders |-> d]
    ELSE [ok |-> saved, sync_folders |-> DictSet(d, local_path, target_path)]

\* NFSSyncBackend.remove_sync_folder.
remove_sync_folder(d, local_path, saved) ==
    IF HasKey(d, local_path)
    THEN [ok |-> saved, sync_folders |-> DictDel(d, local_path)]
    ELSE [ok |-> FALSE, sync_folders |-> d]

\* backend.toggle_folder_enabled, absent from the backend source: the
\* specification's enable/disable toggle of one FolderPair, which stays
\* configured.
toggle_folder_enabled(en, local_path) ==
    [en EXCEPT ![local_path] = ~@]

\* NFSSyncGUI._update_folder_list: the rows shown after a refresh; a pair
\* without a stored flag is shown enabled (folder.get('enabled', True)).
update_folder_list(d, en) ==
    [k \in Keys(d) |-> IF k \in DOMAIN en THEN en[k] ELSE TRUE]

\* ------------------------------------------------------------ sync_folders
\* A result message, by the template that produced it and the counts in it.
Msg(kind, a, b) == [kind |-> kind, a |-> a, b |-> b]
NoMsg == Msg("", 0, 0)

\* stats as sync_folders initialises it, and the {} a rejected run returns.
NewStats   == [files_transferred |-> 0, total_size |-> "0", errors |-> <<>>]
EmptyStats == [files_transferred |-> 0, total_size |-> "", errors |-> <<>>]

\* One entry of stats['errors']: the local path it names (0: none) and its text.
Err(local_path, text) == [local |-> local_path, text |-> text]

\* A thread that has not been started.
NoWorker ==
    [pc |-> "idle", idx |-> 0, total_folders |-> 0, successful |-> 0, failed |-> 0,
     stats |-> NewStats,
     cancelled |-> FALSE,   \* SyncRun.cancelled, set by stop_sync_process
     running |-> FALSE,     \* the rsync child of subprocess.run is alive
     results |-> <<>>,      \* values sync_folders has returned
     \* history of the run, written and never read by the program:
     n_enabled |-> 0,       \* enabled pairs when the run was started
     checked |-> "",        \* what the run's mount check answered
     cancel_at |-> -1,      \* pairs begun when cancel was requested (-1: never)
     progress |-> <<>>,     \* indexes passed to progress_callback
     outcomes |-> <<>>,     \* per pair begun: how mkdir and the transfer ended
     saves |-> 0]           \* save_config calls made by the run

\* A thread that has ended: its locals are gone.
Released == [NoWorker EXCEPT !.pc = "ended"]

\* `return success, message, stats`: the thread's state once sync_folders has
\* returned to it.
sync_return(w, success, message, stats) ==
    [w EXCEPT !.pc = "done",
              !.results = Append(@, [success |-> success, message |-> message,
                                     stats |-> stats])]

\* sync_folders without the early return of lines 367-369.
sync_begin_unchecked(w, ret, d) ==
    LET w1 == [w EXCEPT !.checked = IF ret THEN "mounted" ELSE "not_mounted"] IN
    IF d = <<>> THEN sync_return(w1, FALSE, Msg("NoPairs", 0, 0), EmptyStats)
    ELSE [w1 EXCEPT !.pc = "loop", !.idx = 0, !.total_folders = Len(d),
                    !.successful = 0, !.failed = 0, !.stats = NewStats]

\* sync_folders leaving through a bare `return` when the share is not mounted.
sync_begin_bare_return(w, ret, d) ==
    LET w1 == [w EXCEPT !.checked = IF ret THEN "mounted" ELSE "not_mounted"] IN
    IF ~ret THEN [w1 EXCEPT !.pc = "done"]
    ELSE IF d = <<>> THEN sync_return(w1, FALSE, Msg("NoPairs", 0, 0), EmptyStats)
    ELSE [w1 EXCEPT !.pc = "loop", !.idx = 0, !.total_folders = Len(d),
                    !.successful = 0, !.failed = 0, !.stats = NewStats]

\* sync_folders saving the configuration before it rejects an empty pair set.
sync_begin_saving(w, ret, d) ==
    LET w1 == [w EXCEPT !.checked = IF ret THEN "mounted" ELSE "not_mounted"] IN
    IF ~ret THEN sync_return(w1, FALSE, Msg("NotMounted", 0, 0), EmptyStats)
    ELSE IF d = <<>>
    THEN sync_return([w1 EXCEPT !.saves = @ + 1], FALSE, Msg("NoPairs", 0, 0), EmptyStats)
    ELSE [w1 EXCEPT !.pc = "loop", !.idx = 0, !.total_folders = Len(d),
                    !.successful = 0, !.failed = 0, !.stats = NewStats]

\* Lines 367-382: the mount check's answer ret, then the pairs d.
sync_begin(w, ret, d) ==
    LET w1 == [w EXCEPT !.checked = IF ret THEN "mounted" ELSE "not_mounted"] IN
    IF ~ret THEN sync_return(w1, FALSE, Msg("NotMounted", 0, 0), EmptyStats)
    ELSE IF d = <<>> THEN sync_return(w1, FALSE, Msg("NoPairs", 0, 0), EmptyStats)
    ELSE [w1 EXCEPT !.pc = "loop", !.idx = 0, !.total_folders = Len(d),
                    !.successful = 0, !.failed = 0, !.stats = NewStats]

\* Lines 384-406: the next pair is taken, progress_callback is called, the
\* target's parent directory is made and rsync is spawned.
loop_head(w, pair, mkdir_ok) ==
    LET w1 == [w EXCEPT !.idx = @ + 1, !.progress = Append(@, w.idx + 1)] IN
    IF mkdir_ok
    THEN [w1 EXCEPT !.pc = "transfer", !.running = TRUE]
    ELSE [w1 EXCEPT !.stats.errors = Append(@, Err(0, "mkdir")),
                    !.failed = @ + 1,
                    !.outcomes = Append(@, [local |-> pair.local, status |-> "mkdir"])]

\* Lines 419-427: the scan of result.stdout.  raised: line 427 indexed past
\* the end of line.split('total size is') (IndexError); the scan stops there.
RECURSIVE parse_stdout(_, _)
parse_stdout(lines, stats) ==
    IF lines = <<>> THEN [stats |-> stats, raised |-> FALSE]
    ELSE LET line == Head(lines) IN
         IF line.ft
         THEN parse_stdout(Tail(lines),
                  IF line.first >= 0
                  THEN [stats EXCEPT !.files_transferred = @ + line.first]
                  ELSE stats)
         ELSE IF line.ts = "exact"
         THEN parse_stdout(Tail(lines), [stats EXCEPT !.total_size = "size"])
         ELSE IF line.ts = "ci"
         THEN [stats |-> stats, raised |-> TRUE]
         ELSE parse_stdout(Tail(lines), stats)

\* The transfer with a child that is left alive when the timeout expires.
transfer_done_no_kill(w, local_path, status, out) ==
    LET parsed == parse_stdout(out, w.stats)
        w1 == [w EXCEPT !.pc = "loop", !.running = (status = "timeout"),
                        !.outcomes = Append(@, [local |-> local_path, status |-> status])]
    IN  IF status = "exit0"
        THEN IF parsed.raised
             THEN [w1 EXCEPT !.successful = @ + 1,
                             !.failed = @ + 1,
                             !.stats = [parsed.stats EXCEPT
                                          !.errors = Append(@, Err(local_path, "IndexError"))]]
             ELSE [w1 EXCEPT !.successful = @ + 1, !.stats = parsed.stats]
        ELSE IF status = "nonzero"
        THEN [w1 EXCEPT !.failed = @ + 1,
                        !.stats.errors = Append(@, Err(local_path, "stderr"))]
        ELSE IF status = "timeout"
        THEN [w1 EXCEPT !.failed = @ + 1,
                        !.stats.errors = Append(@, Err(local_path, "Timeout"))]
        ELSE [w1 EXCEPT !.failed = @ + 1,
                        !.stats.errors = Append(@, Err(local_path, "OSError"))]

\* Lines 408-438: subprocess.run ended with `status`, having printed `out`.
\* subprocess.run returns or raises only after the child has exited; on a
\* timeout or another exception it kills the child and waits for it.
transfer_done(w, local_path, status, out) ==
    LET parsed == parse_stdout(out, w.stats)
        w1 == [w EXCEPT !.pc = "loop", !.running = FALSE,
                        !.outcomes = Append(@, [local |-> local_path, status |-> status])]
    IN  IF status = "exit0"
        THEN IF parsed.raised
             THEN [w1 EXCEPT !.successful = @ + 1,
                             !.failed = @ + 1,
                             !.stats = [parsed.stats EXCEPT
                                          !.errors = Append(@, Err(local_path, "IndexError"))]]
             ELSE [w1 EXCEPT !.successful = @ + 1, !.stats = parsed.stats]
        ELSE IF status = "nonzero"
        THEN [w1 EXCEPT !.failed = @ + 1,
                        !.stats.errors = Append(@, Err(local_path, "stderr"))]
        ELSE IF status = "timeout"
        THEN [w1 EXCEPT !.failed = @ + 1,
                        !.stats.errors = Append(@, Err(local_path, "Timeout"))]
        ELSE [w1 EXCEPT !.failed = @ + 1,
                        !.stats.errors = Append(@, Err(local_path, "OSError"))]

\* The summary with success meaning "no pair failed".
summary_strict(successful, failed) ==
    IF failed = 0 THEN [success |-> TRUE, message |-> Msg("AllOk", successful, 0)]
    ELSE IF successful > 0
    THEN [success |-> FALSE, message |-> Msg("Partial", successful, failed)]
    ELSE [success |-> FALSE, message |-> Msg("AllFailed", failed, 0)]

\* The summary without the branch of lines 446-448.
summary_two_way(successful, failed) ==
    IF failed = 0 THEN [success |-> TRUE, message |-> Msg("AllOk", successful, 0)]
    ELSE [success |-> FALSE, message |-> Msg("AllFailed", failed, 0)]

\* Lines 443-451: the summary of a run that went through its loop.
summary(successful, failed) ==
    IF failed = 0 THEN [success |-> TRUE, message |-> Msg("AllOk", successful, 0)]
    ELSE IF successful > 0
    THEN [success |-> TRUE, message |-> Msg("Partial", successful, failed)]
    ELSE [success |-> FALSE, message |-> Msg("AllFailed", failed, 0)]

\* The end of the run without the save_config call of line 441.
sync_end_unsaved(w) ==
    LET s == summary(w.successful, w.failed)
    IN  sync_return(w, s.success, s.message, w.stats)

\* Lines 440-451: save_config is called, then the summary is returned.
sync_end(w) ==
    LET s == summary(w.successful, w.failed)
    IN  sync_return([w EXCEPT !.saves = @ + 1], s.success, s.message, w.stats)

\* ------------------------------------------------- the window's idle queue
\* A callback waiting in the queue: the function, the run it belongs to,
\* the pair a progress line is about, and of a result the success flag and
\* the message's template.
Entry(fn, kind, r, i, success, message) ==
    [fn |-> fn, kind |-> kind, run |-> r, idx |-> i, success |-> success,
     message |-> message.kind]

\* NFSSyncGUI._log: the line is handed to the main loop with GLib.idle_add.
log(q, kind, r, i) ==
    Append(q, Entry("_log_idle", kind, r, i, FALSE, NoMsg))

\* progress_callback of _on_sync_clicked: one progress line of run r.
progress_callback(q, r, i) == log(q, "progress", r, i)

\* finished_callback putting _on_sync_finished ahead of the waiting callbacks.
finished_callback_first(q, r, success, message) ==
    <<Entry("_on_sync_finished", "finished", r, 0, success, message)>> \o q

\* finished_callback of _on_sync_clicked: _on_sync_finished is handed to the
\* main loop with GLib.idle_add.
finished_callback(q, r, success, message) ==
    Append(q, Entry("_on_sync_finished", "finished", r, 0, success, message))

\* sync_all's worker hands what sync_folders returned to finished_callback
\* (specification: every terminal state invokes resultSink exactly once).
RECURSIVE report(_, _, _)
report(q, r, results) ==
    IF results = <<>> THEN q
    ELSE report(finished_callback(q, r, Head(results).success, Head(results).message),
                r, Tail(results))

\* ------------------------------------------- sync_all / stop_sync_process
Active(w) == w.pc \in {"check", "loop", "transfer", "done"}

NoActiveWorker == \A r \in Runs : ~Active(worker[r])

\* sync_all without the AlreadyRunning guard.
sync_all_accepts_always(wk) == TRUE

\* backend.sync_all, absent from the backend source.  From the specification:
\* a start while a run is active fails fast with AlreadyRunning; otherwise one
\* background worker runs the pairs and reports through the two callbacks.
sync_all_accepts(wk) == \A r \in Runs : ~Active(wk[r])

\* backend.stop_sync_process, absent from the backend source.  From the
\* specification's cancel(): idempotent, no effect when no run is active,
\* otherwise the run's cancelled flag is set.
stop_sync_process(wk) ==
    [r \in Runs |->
        IF Active(wk[r]) /\ ~wk[r].cancelled
        THEN [wk[r] EXCEPT !.cancelled = TRUE, !.cancel_at = wk[r].idx]
        ELSE wk[r]]

EnabledCount(d, en) == Cardinality({k \in Keys(d) : en[k]})

\* ------------------------------------------------------------------- Init
\* NFSSyncBackend.__init__ with the default configuration, then
\* NFSSyncGUI.__init__, which ends with _update_status.
Init ==
    /\ mounted \in BOOLEAN
    /\ \E probe \in Probes(mounted) :
          /\ is_mounted = is_nfs_mounted(probe, FALSE).is_mounted
          /\ sync_sensitive = update_status(is_nfs_mounted(probe, FALSE).ret, FALSE, FALSE)
    /\ sync_folders = <<>>
    /\ enabled = update_folder_list(<<>>, <<>>)
    /\ last_sync = 0
    /\ is_syncing = FALSE
    /\ idle = <<>>
    /\ delivered = <<>>
    /\ runs = 0
    /\ worker = [r \in Runs |-> NoWorker]

\* ---------------------------------------------------------------- actions
\* The share is mounted or lost outside the program.
EnvMountChange ==
    /\ mounted' = ~mounted
    /\ UNCHANGED <<is_mounted, sync_folders, enabled, last_sync, is_syncing,
                   sync_sensitive, idle, delivered, runs, worker>>

\* NFSSyncGUI._on_mount: mount_nfs, then _update_status.
on_mount ==
    \E how \in MountHows, probe \in Probes(mounted) :
        LET m == mount_nfs(how, probe, mounted, is_mounted)
        IN  \E probe2 \in Probes(m.mounted) :
              LET st == is_nfs_mounted(probe2, m.is_mounted) IN
              /\ NoActiveWorker
              /\ mounted' = m.mounted
              /\ is_mounted' = st.is_mounted
              /\ sync_sensitive' = update_status(st.ret, is_syncing, sync_sensitive)
              /\ UNCHANGED <<sync_folders, enabled, last_sync, is_syncing, idle,
                             delivered, runs, worker>>

\* NFSSyncGUI._on_unmount: unmount_nfs, then _update_status.
on_unmount ==
    \E how \in UnmountHows, probe \in Probes(mounted) :
        LET m == unmount_nfs(how, probe, mounted, is_mounted)
        IN  \E probe2 \in Probes(m.mounted) :
              LET st == is_nfs_mounted(probe2, m.is_mounted) IN
              /\ NoActiveWorker
              /\ mounted' = m.mounted
              /\ is_mounted' = st.is_mounted
              /\ sync_sensitive' = update_status(st.ret, is_syncing, sync_sensitive)
              /\ UNCHANGED <<sync_folders, enabled, last_sync, is_syncing, idle,
                             delivered, runs, worker>>

\* NFSSyncGUI._on_add_folder with both entries filled in.  The folder list
\* is edited only while no run is active (specification, section 5: the
\* caller serialises edits with a run).
on_add_folder ==
    \E l \in Locals, t \in Targets, exists \in BOOLEAN, saved \in BOOLEAN :
        LET res == add_sync_folder(sync_folders, l, t, exists, saved) IN
        /\ NoActiveWorker
        /\ sync_folders' = res.sync_folders
        /\ enabled' = update_folder_list(res.sync_folders, enabled)
        /\ UNCHANGED <<mounted, is_mounted, last_sync, is_syncing, sync_sensitive,
                       idle, delivered, runs, worker>>

\* NFSSyncGUI._on_remove_folder with a row selected.
on_remove_folder ==
    \E l \in Keys(sync_folders), saved \in BOOLEAN :
        LET res == remove_sync_folder(sync_folders, l, saved) IN
        /\ NoActiveWorker
        /\ sync_folders' = res.sync_folders
        /\ enabled' = update_folder_list(res.sync_folders, enabled)
        /\ UNCHANGED <<mounted, is_mounted, last_sync, is_syncing, sync_sensitive,
                       idle, delivered, runs, worker>>

\* NFSSyncGUI._on_folder_toggled.
on_folder_toggled ==
    \E l \in Keys(sync_folders) :
        /\ NoActiveWorker
        /\ enabled' = toggle_folder_enabled(enabled, l)
        /\ UNCHANGED <<mounted, is_mounted, sync_folders, last_sync, is_syncing,
                       sync_sensitive, idle, delivered, runs, worker>>

\* NFSSyncGUI._on_sync_clicked, the button reading STOP.
on_sync_clicked_stop ==
    /\ sync_sensitive
    /\ is_syncing
    /\ worker' = stop_sync_process(worker)
    /\ is_syncing' = FALSE
    /\ UNCHANGED <<mounted, is_mounted, sync_folders, enabled, last_sync,
                   sync_sensitive, idle, delivered, runs>>

\* NFSSyncGUI._on_sync_clicked, the button reading "Sync starten".
on_sync_clicked_start ==
    /\ sync_sensitive
    /\ ~is_syncing
    /\ is_syncing' = TRUE
    /\ IF sync_all_accepts(worker)
       THEN /\ runs < MaxRuns
            /\ runs' = runs + 1
            /\ worker' = [worker EXCEPT ![runs + 1] =
                            [NoWorker EXCEPT !.pc = "check",
                                             !.n_enabled = EnabledCount(sync_folders, enabled)]]
       ELSE UNCHANGED <<runs, worker>>
    /\ UNCHANGED <<mounted, is_mounted, sync_folders, enabled, last_sync,
                   sync_sensitive, idle, delivered>>

on_sync_clicked == on_sync_clicked_stop \/ on_sync_clicked_start

\* The worker thread enters sync_folders: lines 367-382.
WorkerBegin(r) ==
    /\ worker[r].pc = "check"
    /\ \E probe \in Probes(mounted) :
          LET chk == check_mount(mount_point, probe, is_mounted)
              w   == sync_begin(worker[r], chk.ret, sync_folders)
          IN  /\ is_mounted' = chk.is_mounted
              /\ worker' = [worker EXCEPT ![r] = w]
    /\ UNCHANGED <<mounted, sync_folders, enabled, last_sync, is_syncing,
                   sync_sensitive, idle, delivered, runs>>

\* One turn of the for loop up to the spawn of rsync: lines 384-406.
WorkerLoop(r) ==
    /\ worker[r].pc = "loop"
    /\ worker[r].idx < Len(sync_folders)
    /\ \E mkdir_ok \in BOOLEAN :
          worker' = [worker EXCEPT ![r] =
                        loop_head(worker[r], sync_folders[worker[r].idx + 1], mkdir_ok)]
    /\ idle' = progress_callback(idle, r, worker[r].idx + 1)
    /\ UNCHANGED <<mounted, is_mounted, sync_folders, enabled, last_sync,
                   is_syncing, sync_sensitive, delivered, runs>>

\* rsync ends and its result is booked: lines 408-438.
WorkerTransfer(r) ==
    /\ worker[r].pc = "transfer"
    /\ \E status \in Statuses, out \in Outputs :
          worker' = [worker EXCEPT ![r] =
                        transfer_done(worker[r], sync_folders[worker[r].idx].local,
                                      status, out)]
    /\ UNCHANGED <<mounted, is_mounted, sync_folders, enabled, last_sync,
                   is_syncing, sync_sensitive, idle, delivered, runs>>

\* The loop is exhausted: lines 440-451.
WorkerEnd(r) ==
    /\ worker[r].pc = "loop"
    /\ worker[r].idx >= Len(sync_folders)
    /\ worker' = [worker EXCEPT ![r] = sync_end(worker[r])]
    /\ last_sync' = r
    /\ UNCHANGED <<mounted, is_mounted, sync_folders, enabled, is_syncing,
                   sync_sensitive, idle, delivered, runs>>

\* sync_all's worker, sync_folders having returned: it reports the result
\* through finished_callback and ends.
WorkerReport(r) ==
    /\ worker[r].pc = "done"
    /\ idle' = report(idle, r, worker[r].results)
    /\ worker' = [worker EXCEPT ![r] = Released]
    /\ UNCHANGED <<mounted, is_mounted, sync_folders, enabled, last_sync,
                   is_syncing, sync_sensitive, delivered, runs>>

\* The main loop runs the oldest idle callback: _log_idle inserts the line,
\* _on_sync_finished resets the button and shows the result.
IdleDispatch ==
    /\ idle # <<>>
    /\ delivered' = Append(delivered, [fn |-> Head(idle).fn, run |-> Head(idle).run,
                                        idx |-> Head(idle).idx])
    /\ idle' = Tail(idle)
    /\ is_syncing' = IF Head(idle).fn = "_on_sync_finished" THEN FALSE ELSE is_syncing
    /\ UNCHANGED <<mounted, is_mounted, sync_folders, enabled, last_sync,
                   sync_sensitive, runs, worker>>

Next ==
    \/ EnvMountChange
    \/ on_mount
    \/ on_unmount
    \/ on_add_folder
    \/ on_remove_folder
    \/ on_folder_toggled
    \/ on_sync_clicked
    \/ \E r \in Runs : WorkerBegin(r)
    \/ \E r \in Runs : WorkerLoop(r)
    \/ \E r \in Runs : WorkerTransfer(r)
    \/ \E r \in Runs : WorkerEnd(r)
    \/ \E r \in Runs : WorkerReport(r)
    \/ IdleDispatch

Spec == Init /\ [][Next]_vars

\* ------------------------------------------------------------- properties
\* What the properties read off a state.
Result(w) == w.results[1]

\* sync_folders has returned from a run that went through its loop.
LoopDone(w) ==
    /\ w.pc = "done"
    /\ Len(w.results) = 1
    /\ Result(w).message.kind \in {"AllOk", "Partial", "AllFailed"}

Failing == {"nonzero", "timeout", "exception", "mkdir"}

FailedAt(w) == {i \in 1..Len(w.outcomes) : w.outcomes[i].status \in Failing}

RECURSIVE Count(_, _, _)
Count(q, fn, r) ==
    IF q = <<>> THEN 0
    ELSE (IF Head(q).fn = fn /\ Head(q).run = r THEN 1 ELSE 0) + Count(Tail(q), fn, r)

Finished(r) == Count(idle, "_on_sync_finished", r) + Count(delivered, "_on_sync_finished", r)

Progressed(r) == Count(idle, "_log_idle", r) + Count(delivered, "_log_idle", r)

\* C1: a run whose mount check answered "not mounted" calls progress_callback
\* for no pair, starts no transfer, and returns exactly one result, which is
\* unsuccessful and of kind NotMounted; the result handed to the window is
\* that one and no progress line of the run exists.
C1_NotMounted ==
    /\ \A r \in Runs :
          worker[r].checked = "not_mounted" =>
              /\ worker[r].pc = "done"
              /\ worker[r].progress = <<>>
              /\ worker[r].outcomes = <<>>
              /\ worker[r].idx = 0
              /\ Progressed(r) = 0
              /\ Len(worker[r].results) = 1
              /\ ~Result(worker[r]).success
              /\ Result(worker[r]).message.kind = "NotMounted"
    /\ \A i \in 1..Len(idle) :
          idle[i].message = "NotMounted" =>
              /\ ~idle[i].success
              /\ Finished(idle[i].run) = 1
              /\ Progressed(idle[i].run) = 0

C1_Witness ==
    \E r \in Runs :
        /\ worker[r].checked = "not_mounted"
        /\ worker[r].pc = "done"
        /\ sync_folders # <<>>

\* C2: a run on a mounted target started with no enabled pair (none
\* configured, or every configured pair disabled) starts no transfer and
\* returns an unsuccessful result of kind NoPairs.
C2_NoPairs ==
    \A r \in Runs :
        (worker[r].checked = "mounted" /\ worker[r].n_enabled = 0) =>
            /\ worker[r].pc = "done"
            /\ worker[r].outcomes = <<>>
            /\ worker[r].progress = <<>>
            /\ ~Result(worker[r]).success
            /\ Result(worker[r]).message.kind = "NoPairs"

\* C3: when every transfer of a run over N pairs exits successfully, the
\* result counts N succeeded and 0 failed and is successful, whatever the
\* transfer tool printed.
C3_AllSucceed ==
    \A r \in Runs :
        (/\ LoopDone(worker[r])
         /\ Len(worker[r].outcomes) = worker[r].total_folders
         /\ \A i \in 1..Len(worker[r].outcomes) : worker[r].outcomes[i].status = "exit0") =>
            /\ worker[r].successful = worker[r].total_folders
            /\ worker[r].failed = 0
            /\ Result(worker[r]).success
            /\ Result(worker[r]).message = Msg("AllOk", worker[r].total_folders, 0)

\* C4: when exactly one pair of a run over N pairs fails and every other
\* transfer exits successfully, every pair is still processed, the result
\* counts N-1 succeeded and 1 failed, and its error list has exactly one
\* entry, which names the failed pair's local path.
C4_OneFails ==
    \A r \in Runs :
        (/\ LoopDone(worker[r])
         /\ \E i \in 1..Len(worker[r].outcomes) :
               /\ worker[r].outcomes[i].status \in {"nonzero", "timeout", "exception"}
               /\ \A j \in 1..Len(worker[r].outcomes) :
                     j # i => worker[r].outcomes[j].status = "exit0") =>
            /\ Len(worker[r].outcomes) = worker[r].total_folders
            /\ worker[r].successful = worker[r].total_folders - 1
            /\ worker[r].failed = 1
            /\ Len(Result(worker[r]).stats.errors) = 1
            /\ \A i \in FailedAt(worker[r]) :
                  Result(worker[r]).stats.errors[1].local = worker[r].outcomes[i].local

\* C5 as stated: the result of a run that went through its loop is
\* successful exactly when no pair failed.
C5_SuccessIffNoneFailed ==
    \A r \in Runs :
        LoopDone(worker[r]) =>
            (Result(worker[r]).success <=> worker[r].failed = 0)

\* C5, amended: the result of a run that went through its loop is successful
\* exactly when no pair failed or at least one pair succeeded; it is
\* unsuccessful only when pairs failed and none succeeded.
C5_SuccessIffAnySucceeded ==
    \A r \in Runs :
        LoopDone(worker[r]) =>
            (Result(worker[r]).success <=>
                (worker[r].failed = 0 \/ worker[r].successful > 0))

C5_Witness ==
    \E r \in Runs :
        /\ LoopDone(worker[r])
        /\ worker[r].failed > 0
        /\ worker[r].successful > 0
        /\ Result(worker[r]).success
        /\ \E i \in FailedAt(worker[r]) : TRUE

\* C6: at most one run is active at any time and at most one transfer is in
\* flight; a start request made while a run is active, also one made after
\* STOP and before the worker has ended, starts no worker.
C6_SingleRun ==
    /\ [](/\ Cardinality({r \in Runs : Active(worker[r])}) <= 1
          /\ Cardinality({r \in Runs : worker[r].pc = "transfer"}) <= 1)
    /\ [][(~is_syncing /\ is_syncing' /\ ~NoActiveWorker)
              => (runs' = runs /\ worker' = worker)]_vars

C6_Witness ==
    \E r \in Runs :
        /\ worker[r].pc = "transfer"
        /\ worker[r].cancelled
        /\ is_syncing

\* C7: when cancellation is requested before pair k of a run over N pairs
\* begins (k <= N), no pair with index k or above is begun or announced, and
\* the run's result is Cancelled with fewer than N pairs completed.
C7_Cancel ==
    \A r \in Runs :
        (/\ worker[r].pc \in {"loop", "transfer", "done"}
         /\ worker[r].checked = "mounted"
         /\ worker[r].cancel_at >= 0
         /\ worker[r].cancel_at < worker[r].total_folders) =>
            /\ worker[r].idx <= worker[r].cancel_at
            /\ \A i \in 1..Len(worker[r].progress) :
                  worker[r].progress[i] <= worker[r].cancel_at
            /\ worker[r].pc = "done" =>
                  /\ Result(worker[r]).message.kind = "Cancelled"
                  /\ worker[r].successful + worker[r].failed < worker[r].total_folders

C9_NoProgressAfterResult ==
    /\ \A i \in 1..Len(delivered) : \A j \in 1..Len(delivered) :
          (/\ i < j
           /\ delivered[i].fn = "_on_sync_finished"
           /\ delivered[j].run = delivered[i].run) => delivered[j].fn # "_log_idle"
    /\ \A r \in Runs :
          Count(delivered, "_on_sync_finished", r) > 0 =>
              /\ Count(idle, "_log_idle", r) = 0
              /\ worker[r].pc = "ended"

C9_Witness ==
    \E i \in 1..Len(delivered) : \E j \in 1..Len(delivered) :
        /\ i < j
        /\ delivered[i].fn = "_log_idle"
        /\ delivered[j].fn = "_on_sync_finished"
        /\ delivered[j].run = delivered[i].run

\* C10: the result of a run that went through its loop tells total success
\* (no pair failed), partial failure (some succeeded and some failed) and
\* total failure (none succeeded) apart by its message, and carries the
\* error list the run collected, with an entry for every pair that failed.
C10_ThreeWay ==
    \A r \in Runs :
        LoopDone(worker[r]) =>
            LET w == worker[r]
                res == Result(w) IN
            /\ res.message.kind = "AllOk" <=> w.failed = 0
            /\ res.message.kind = "Partial" <=> (w.successful > 0 /\ w.failed > 0)
            /\ res.message.kind = "AllFailed" <=> w.successful = 0
            /\ res.stats.errors = w.stats.errors
            /\ Len(res.stats.errors) = w.failed
            /\ Len(res.stats.errors) >= Cardinality(FailedAt(w))
            /\ \A i \in FailedAt(w) :
                  w.outcomes[i].status # "mkdir" =>
                      \E e \in 1..Len(res.stats.errors) :
                          res.stats.errors[e].local = w.outcomes[i].local

C10_Witness ==
    \E r \in Runs :
        /\ LoopDone(worker[r])
        /\ Result(worker[r]).message.kind = "Partial"
        /\ Cardinality(FailedAt(worker[r])) = 1
        /\ Len(Result(worker[r]).stats.errors) = 1

\* Target paths an add can name, one more than the model's handlers use.
AnyTargets == Targets \cup {"t2"}

\* C11: local paths are unique within the configured pairs, and in every
\* configuration the program reaches, adding a pair whose local path is
\* already configured is rejected and leaves the configuration, the
\* existing pair's target included, unchanged.
C11_UniqueLocals ==
    /\ \A i \in 1..Len(sync_folders) : \A j \in 1..Len(sync_folders) :
          sync_folders[i].local = sync_folders[j].local => i = j
    /\ \A l \in Keys(sync_folders), t \in AnyTargets, saved \in BOOLEAN :
          LET res == add_sync_folder(sync_folders, l, t, TRUE, saved) IN
          /\ ~res.ok
          /\ res.sync_folders = sync_folders

\* C12: a pair whose enabled flag is false is never begun by a run and is
\* not counted in the run's total, and stays configured.
C12_DisabledSkipped ==
    \A r \in Runs :
        Active(worker[r]) =>
            /\ \A i \in 1..worker[r].idx : enabled[sync_folders[i].local]
            /\ (worker[r].pc \in {"loop", "transfer"} \/ LoopDone(worker[r])) =>
                  worker[r].total_folders = worker[r].n_enabled
            /\ DOMAIN enabled = Keys(sync_folders)

\* C13: a run rejected with NotMounted or NoPairs has done no partial work:
\* no pair was begun (no directory made, no transfer started), the run has
\* not set last_sync and has not saved the configuration.
C13_NoPartialWork ==
    \A r \in Runs :
        (/\ worker[r].pc = "done"
         /\ Len(worker[r].results) = 1
         /\ Result(worker[r]).message.kind \in {"NotMounted", "NoPairs"}) =>
            /\ worker[r].idx = 0
            /\ worker[r].progress = <<>>
            /\ worker[r].outcomes = <<>>
            /\ ~worker[r].running
            /\ worker[r].saves = 0
            /\ last_sync # r
            /\ ~Result(worker[r]).success

C13_Witness ==
    \E r \in Runs :
        /\ worker[r].pc = "done"
        /\ Len(worker[r].results) = 1
        /\ Result(worker[r]).message.kind = "NoPairs"
        /\ last_sync # 0
        /\ last_sync # r

\* C14: on every exit path of a run no rsync child of the run is alive when
\* the run's result exists: the child lives only while subprocess.run is
\* executing, and not when sync_folders has returned or the result has been
\* handed to the window.
C14_NoChildOutlives ==
    \A r \in Runs :
        /\ worker[r].running <=> worker[r].pc = "transfer"
        /\ (worker[r].results # <<>> \/ Finished(r) > 0) => ~worker[r].running

C14_Witness ==
    \E r \in Runs :
        /\ LoopDone(worker[r])
        /\ worker[r].cancelled
        /\ \E i \in 1..Len(worker[r].outcomes) : worker[r].outcomes[i].status = "timeout"
        /\ \E i \in 1..Len(worker[r].outcomes) : worker[r].outcomes[i].status = "exception"

C16_OutputIgnored ==
    \A r \in Runs :
        worker[r].pc = "transfer" =>
            \A status \in Statuses : \A o1 \in Outputs : \A o2 \in Outputs :
                LET l == sync_folders[worker[r].idx].local
                    a == transfer_done(worker[r], l, status, o1)
                    b == transfer_done(worker[r], l, status, o2)
                IN  /\ a.successful = b.successful
                    /\ a.failed = b.failed
                    /\ a.stats.errors = b.stats.errors

\* C17: a pair whose destination directory cannot be made counts as one
\* failure, gets one errors entry that names the pair's local path, has no
\* transfer started, and the run goes on with the next pair.
C17_MkdirFailure ==
    \A r \in Runs :
        \A i \in 1..Len(worker[r].outcomes) :
            worker[r].outcomes[i].status = "mkdir" =>
                /\ worker[r].failed >= 1
                /\ ~(worker[r].running /\ worker[r].idx = i)
                /\ \E e \in 1..Len(worker[r].stats.errors) :
                      worker[r].stats.errors[e].local = worker[r].outcomes[i].local
                /\ LoopDone(worker[r]) => Len(worker[r].outcomes) = worker[r].total_folders

\* The outcomes of the pairs that failed, in processing order.
IsFailing(o) == o.status \in Failing
FailedSeq(w) == SelectSeq(w.outcomes, IsFailing)

\* The errors entry e is the one of the failed outcome o.
EntryOf(o, e) == IF o.status = "mkdir" THEN e.text = "mkdir" ELSE e.local = o.local

\* C18: the pairs are processed one after another in configured order, and
\* errors holds exactly one entry per failed pair, in processing order, and
\* none for a pair that succeeded.
C18_ErrorsInOrder ==
    \A r \in Runs :
        LoopDone(worker[r]) =>
            LET w == worker[r] IN
            /\ w.progress = [i \in 1..w.total_folders |-> i]
            /\ \A i \in 1..Len(w.outcomes) : w.outcomes[i].local = sync_folders[i].local
            /\ Len(w.stats.errors) = Len(FailedSeq(w))
            /\ \A k \in 1..Len(w.stats.errors) :
                  k <= Len(FailedSeq(w)) => EntryOf(FailedSeq(w)[k], w.stats.errors[k])
            /\ \A i \in 1..Len(w.outcomes) :
                  w.outcomes[i].status = "exit0" =>
                      \A k \in 1..Len(w.stats.errors) :
                          w.stats.errors[k].local # w.outcomes[i].local

\* C19: every pair is counted exactly once: between two pairs succeeded +
\* failed is the number of pairs processed, on completion it is the total,
\* and errors has one entry per failure.
C19_CountedOnce ==
    \A r \in Runs :
        LET w == worker[r] IN
        /\ w.pc = "loop" => w.successful + w.failed = w.idx
        /\ w.pc = "transfer" => w.successful + w.failed = w.idx - 1
        /\ LoopDone(w) => /\ w.successful + w.failed = w.total_folders
                          /\ Len(w.stats.errors) = w.failed

\* C20: the cached is_mounted flag agrees with the latest observation: in
\* every state reached, whatever the mountpoint check does next, after
\* check_mount the flag is the value returned, after a successful mount_nfs
\* it is true and after a successful unmount_nfs it is false.
C20_FlagAgrees ==
    \A probe \in Probes(mounted) :
        /\ check_mount(mount_point, probe, is_mounted).is_mounted
              = check_mount(mount_point, probe, is_mounted).ret
        /\ \A how \in MountHows :
              mount_nfs(how, probe, mounted, is_mounted).ok =>
                  mount_nfs(how, probe, mounted, is_mounted).is_mounted
        /\ \A how \in UnmountHows :
              unmount_nfs(how, probe, mounted, is_mounted).ok =>
                  ~unmount_nfs(how, probe, mounted, is_mounted).is_mounted

====
